---- MODULE Spec2Model ----
(***************************************************************************)
(* The Tokenizer facade of include/tokenizers_cpp.h: the pure virtual      *)
(* primitives (Encode, Decode, GetVocabSize, IdToToken, TokenToId) are an  *)
(* opaque backend chosen when the instance is constructed; the six default *)
(* methods (Encode(text), Decode(ids) and the four batch forms) are        *)
(* modelled statement by statement, one call frame per calling thread.     *)
(***************************************************************************)
EXTENDS Integers, Sequences, FiniteSets, TLC

\* ---------------------------------------------------------------- bounds
MaxBatch == 2
MaxVocab == 2

Chars == {"a"}
Threads == {"t1", "t2"}

SeqsUpTo(S, n) == UNION {[1..k -> S] : k \in 0..n}

\* std::string, modelled as the sequence of its characters: "" and "a"
Texts == {<<>>} \cup {<<c>> : c \in Chars}
\* int32_t token ids and std::vector<int32_t>: {} and {0}
TokenIds == {0}
IdSeqs == {<<>>} \cup {<<id>> : id \in TokenIds}
\* std::vector<std::string> and std::vector<std::vector<int32_t>>
TextBatches == SeqsUpTo(Texts, MaxBatch)
IdBatches == SeqsUpTo(IdSeqs, MaxBatch)

\* ------------------------------------------------------- call outcomes
\* A call either returns a value or leaves by a fault (a C++ exception
\* thrown by the backend); None is the outcome slot of a call in progress.
Value(v) == [kind |-> "value", val |-> v]
Fault == [kind |-> "fault", val |-> <<>>]
None == [kind |-> "none", val |-> <<>>]

\* ------------------------------------------------------------ variables
VARIABLES
  enc,                  \* backend of Encode(text, add_special_tokens)
  dec,                  \* backend of Decode(ids, skip_special_tokens)
  overridesEncodeBatch, \* the variant overrides EncodeBatch(texts, flag)
  overridesDecodeBatch, \* the variant overrides DecodeBatch(ids, flag)
  nativeEnc,            \* engine behind an overriding EncodeBatch
  nativeDec,            \* engine behind an overriding DecodeBatch
  vocab,                \* vocabulary: vocab[id + 1] is the token of id
  threads,              \* the threads that call into the instance
  pc,                   \* per thread: position in the facade's code
  op,                   \* per thread: the public method that was called
  arg,                  \* per thread: its first argument
  flag,                 \* per thread: add_special_tokens / skip_special_tokens
  i,                    \* per thread: elements consumed by the range-for
  ret,                  \* per call: the local accumulator `ret`
  result,               \* per thread: outcome handed to the caller
  log                   \* per thread: primitive invocations made by the call

instance == <<enc, dec, overridesEncodeBatch, overridesDecodeBatch,
              nativeEnc, nativeDec, vocab, threads>>
frames == <<pc, op, arg, flag, i, ret, result, log>>
vars == <<enc, dec, overridesEncodeBatch, overridesDecodeBatch,
          nativeEnc, nativeDec, vocab, threads,
          pc, op, arg, flag, i, ret, result, log>>

\* ----------------------------------------------------- backend families
EncOutcomes == {Value(s) : s \in IdSeqs} \cup {Fault}
DecOutcomes == {Value(s) : s \in Texts} \cup {Fault}
EncTables == [Texts \X BOOLEAN -> EncOutcomes]
DecTables == [IdSeqs \X BOOLEAN -> DecOutcomes]

\* One concrete backend: one id per character, or only the begin marker
\* when special tokens are asked for.
ToyEnc ==
  [x \in Texts \X BOOLEAN |->
     Value(IF x[2] THEN <<0>> ELSE [k \in 1..Len(x[1]) |-> 0])]

\* Its decoder: one character per id, nothing when special ids are skipped.
ToyDec ==
  [x \in IdSeqs \X BOOLEAN |->
     Value(IF x[2] THEN <<>> ELSE [k \in 1..Len(x[1]) |-> "a"])]

\* Vocabularies: a token per id, the empty string for an id without a
\* string form; a token occurs at most once.
VocabEntries == Texts
Vocabs ==
  {v \in SeqsUpTo(VocabEntries, MaxVocab) :
     \A a, b \in 1..Len(v) : (a # b /\ v[a] # <<>>) => v[a] # v[b]}
ToyVocab == <<<<"a">>>>


\* ------------------------------------------------ the pure virtual part
\* virtual std::vector<int32_t> Encode(text, add_special_tokens) = 0
Encode(text, add_special_tokens) == enc[<<text, add_special_tokens>>]

\* virtual std::string Decode(ids, skip_special_tokens) = 0
Decode(ids, skip_special_tokens) == dec[<<ids, skip_special_tokens>>]

\* virtual size_t GetVocabSize() = 0
GetVocabSize == Len(vocab)

\* virtual std::string IdToToken(int32_t token_id) = 0: the token of the id
\* if it exists, the empty string otherwise.
IdToToken(token_id) ==
  IF 0 <= token_id /\ token_id < GetVocabSize
    THEN vocab[token_id + 1]
    ELSE <<>>

\* virtual int32_t TokenToId(token) = 0: the id of the token if it exists,
\* -1 otherwise.
TokenToIdMissZero(token) ==
  IF token # <<>> /\ \E k \in 1..Len(vocab) : vocab[k] = token
    THEN (CHOOSE k \in 1..Len(vocab) : vocab[k] = token) - 1
    ELSE 0

TokenToId(token) ==
  IF token # <<>> /\ \E k \in 1..Len(vocab) : vocab[k] = token
    THEN (CHOOSE k \in 1..Len(vocab) : vocab[k] = token) - 1
    ELSE -1

\* An id exists in the vocabulary when it is in range and has a string form.
IdExists(token_id) ==
  /\ 0 <= token_id
  /\ token_id < GetVocabSize
  /\ vocab[token_id + 1] # <<>>

TokenExists(token) == token # <<>> /\ \E k \in 1..Len(vocab) : vocab[k] = token

\* An invocation of a primitive, as the facade issues it.
Invocation(fn, a, b) == [fn |-> fn, arg |-> a, flag |-> b]

Invoke(inv) ==
  IF inv.fn = "Encode" THEN Encode(inv.arg, inv.flag)
                       ELSE Decode(inv.arg, inv.flag)

\* An engine-native batch call of an overriding variant: the engine's own
\* per-item table, the whole call failing when one item fails.
NativeBatch(table, items, b) ==
  IF \E k \in 1..Len(items) : table[<<items[k], b>>] = Fault
    THEN Fault
    ELSE Value([k \in 1..Len(items) |-> table[<<items[k], b>>].val])

NativeEncodeBatch(texts, add_special_tokens) ==
  NativeBatch(nativeEnc, texts, add_special_tokens)

NativeDecodeBatch(ids, skip_special_tokens) ==
  NativeBatch(nativeDec, ids, skip_special_tokens)

\* ------------------------------------------- the statements of the facade
\* line 38: { return Encode(text, false); }
Encode1CallSpecial(text) == Invocation("Encode", text, TRUE)

Encode1Call(text) == Invocation("Encode", text, FALSE)

\* line 79: { return Decode(ids, false); }
Decode1Call(ids) == Invocation("Decode", ids, FALSE)

\* line 52: Encode(text, add_special_tokens) inside the range-for
EncodeItemCallNoFlag(text, add_special_tokens) ==
  Invocation("Encode", text, FALSE)

EncodeItemCall(text, add_special_tokens) ==
  Invocation("Encode", text, add_special_tokens)

\* line 93: Decode(id, skip_special_tokens) inside the range-for
DecodeItemCallNoFlag(id, skip_special_tokens) ==
  Invocation("Decode", id, FALSE)

DecodeItemCall(id, skip_special_tokens) ==
  Invocation("Decode", id, skip_special_tokens)

\* lines 52 and 93: ret.push_back(...)
PushFront(r, x) == <<x>> \o r

push_back(r, x) == Append(r, x)

\* lines 51 and 92: the range-for visits the elements from the first on;
\* k elements have been visited
ItemAtReverse(items, k) == items[Len(items) - k]

ItemAt(items, k) == items[k + 1]

\* lines 51-53 and 92-94: nothing in the loop catches a fault of the
\* primitive, so it leaves the method
ItemFaultCaught(r) == FALSE

ItemFaultEscapes(r) == r = Fault

\* lines 54 and 95: return ret;
BatchReturnRejectsEmpty(r) == IF r = <<>> THEN Fault ELSE Value(r)

BatchReturn(r) == Value(r)

\* lines 49 and 90: `ret` is a local of the call, one per calling thread
SharedRet(t) == "t1"

RetOf(t) == t

\* lines 46 and 87: the two-argument batch forms are virtual, so a call
\* lands in the override when the variant has one
EncodeBatchTarget ==
  IF overridesEncodeBatch THEN "NativeEncodeBatch" ELSE "EncodeBatch"

DecodeBatchTarget ==
  IF overridesDecodeBatch THEN "NativeDecodeBatch" ELSE "DecodeBatch"

\* line 63: { return EncodeBatch(texts, false); }, an unqualified call
EncodeBatch1TargetBase == "EncodeBatch"

EncodeBatch1Target == EncodeBatchTarget

\* line 104: { return DecodeBatch(ids, false); }, an unqualified call
DecodeBatch1Target == DecodeBatchTarget

\* ------------------------------------- the facade as functions of a call
\* lines 46-55 and 87-96 run to completion: the range-for from position k
\* with accumulator acc.
RECURSIVE BatchLoop(_, _, _, _, _)
BatchLoop(fn, items, b, k, acc) ==
  IF k = Len(items)
    THEN BatchReturn(acc)
    ELSE LET r == Invoke(IF fn = "Encode"
                           THEN EncodeItemCall(ItemAt(items, k), b)
                           ELSE DecodeItemCall(ItemAt(items, k), b))
         IN IF ItemFaultEscapes(r)
              THEN Fault
              ELSE BatchLoop(fn, items, b, k + 1, push_back(acc, r.val))

EncodeBatchDefault(texts, add_special_tokens) ==
  BatchLoop("Encode", texts, add_special_tokens, 0, <<>>)

DecodeBatchDefault(ids, skip_special_tokens) ==
  BatchLoop("Decode", ids, skip_special_tokens, 0, <<>>)

\* what a call of the virtual two-argument batch form returns
EncodeBatch(texts, add_special_tokens) ==
  IF EncodeBatchTarget = "NativeEncodeBatch"
    THEN NativeEncodeBatch(texts, add_special_tokens)
    ELSE EncodeBatchDefault(texts, add_special_tokens)

DecodeBatch(ids, skip_special_tokens) ==
  IF DecodeBatchTarget = "NativeDecodeBatch"
    THEN NativeDecodeBatch(ids, skip_special_tokens)
    ELSE DecodeBatchDefault(ids, skip_special_tokens)


\* ------------------------------------------------------------- the calls
Idle(t) == t \in threads /\ pc[t] = "idle"

\* A caller enters a public method `method` at position `at`.
Enter(t, method, at, a, b) ==
  /\ pc' = [pc EXCEPT ![t] = at]
  /\ op' = [op EXCEPT ![t] = method]
  /\ arg' = [arg EXCEPT ![t] = a]
  /\ flag' = [flag EXCEPT ![t] = b]
  /\ UNCHANGED <<i, ret, result, log, instance>>

\* The call of thread t ends with outcome r.
Finish(t, r) ==
  /\ pc' = [pc EXCEPT ![t] = "done"]
  /\ result' = [result EXCEPT ![t] = r]

\* Encode(text)
CallEncode(t, text) ==
  /\ Idle(t)
  /\ Enter(t, "Encode1", "Encode1", text, FALSE)

\* line 38
Encode1Body(t) ==
  /\ t \in threads /\ pc[t] = "Encode1"
  /\ LET inv == Encode1Call(arg[t])
     IN /\ log' = [log EXCEPT ![t] = Append(@, inv)]
        /\ Finish(t, Invoke(inv))
  /\ UNCHANGED <<op, arg, flag, i, ret, instance>>

\* EncodeBatch(texts, add_special_tokens), dispatched virtually
CallEncodeBatch(t, texts, add_special_tokens) ==
  /\ Idle(t)
  /\ Enter(t, "EncodeBatch", EncodeBatchTarget, texts, add_special_tokens)

\* EncodeBatch(texts)
CallEncodeBatch1(t, texts) ==
  /\ Idle(t)
  /\ Enter(t, "EncodeBatch1", "EncodeBatch1", texts, FALSE)

\* line 63
EncodeBatch1Body(t) ==
  /\ t \in threads /\ pc[t] = "EncodeBatch1"
  /\ pc' = [pc EXCEPT ![t] = EncodeBatch1Target]
  /\ flag' = [flag EXCEPT ![t] = FALSE]
  /\ UNCHANGED <<op, arg, i, ret, result, log, instance>>

\* lines 49-50: std::vector<...> ret; ret.reserve(texts.size());
EncodeBatchEnter(t) ==
  /\ t \in threads /\ pc[t] = "EncodeBatch"
  /\ ret' = [ret EXCEPT ![RetOf(t)] = <<>>]
  /\ i' = [i EXCEPT ![t] = 0]
  /\ pc' = [pc EXCEPT ![t] = "EncodeBatchLoop"]
  /\ UNCHANGED <<op, arg, flag, result, log, instance>>

\* lines 51-53: one round of the range-for; a fault of Encode leaves the
\* method at once and destroys the local ret
EncodeBatchIter(t) ==
  /\ t \in threads /\ pc[t] = "EncodeBatchLoop"
  /\ i[t] < Len(arg[t])
  /\ LET inv == EncodeItemCall(ItemAt(arg[t], i[t]), flag[t])
         r == Invoke(inv)
     IN /\ log' = [log EXCEPT ![t] = Append(@, inv)]
        /\ IF ItemFaultEscapes(r)
             THEN /\ Finish(t, Fault)
                  /\ ret' = [ret EXCEPT ![RetOf(t)] = <<>>]
                  /\ UNCHANGED i
             ELSE /\ ret' = [ret EXCEPT ![RetOf(t)] = push_back(@, r.val)]
                  /\ i' = [i EXCEPT ![t] = @ + 1]
                  /\ UNCHANGED <<pc, result>>
  /\ UNCHANGED <<op, arg, flag, instance>>

\* line 54: return ret;
EncodeBatchReturn(t) ==
  /\ t \in threads /\ pc[t] = "EncodeBatchLoop"
  /\ i[t] = Len(arg[t])
  /\ Finish(t, BatchReturn(ret[RetOf(t)]))
  /\ ret' = [ret EXCEPT ![RetOf(t)] = <<>>]
  /\ UNCHANGED <<op, arg, flag, i, log, instance>>

\* the body of an overriding EncodeBatch(texts, add_special_tokens)
NativeEncodeBatchBody(t) ==
  /\ t \in threads /\ pc[t] = "NativeEncodeBatch"
  /\ Finish(t, NativeEncodeBatch(arg[t], flag[t]))
  /\ UNCHANGED <<op, arg, flag, i, ret, log, instance>>

\* Decode(ids)
CallDecode(t, ids) ==
  /\ Idle(t)
  /\ Enter(t, "Decode1", "Decode1", ids, FALSE)

\* line 79
Decode1Body(t) ==
  /\ t \in threads /\ pc[t] = "Decode1"
  /\ LET inv == Decode1Call(arg[t])
     IN /\ log' = [log EXCEPT ![t] = Append(@, inv)]
        /\ Finish(t, Invoke(inv))
  /\ UNCHANGED <<op, arg, flag, i, ret, instance>>

\* DecodeBatch(ids, skip_special_tokens), dispatched virtually
CallDecodeBatch(t, ids, skip_special_tokens) ==
  /\ Idle(t)
  /\ Enter(t, "DecodeBatch", DecodeBatchTarget, ids, skip_special_tokens)

\* DecodeBatch(ids)
CallDecodeBatch1(t, ids) ==
  /\ Idle(t)
  /\ Enter(t, "DecodeBatch1", "DecodeBatch1", ids, FALSE)

\* line 104
DecodeBatch1Body(t) ==
  /\ t \in threads /\ pc[t] = "DecodeBatch1"
  /\ pc' = [pc EXCEPT ![t] = DecodeBatch1Target]
  /\ flag' = [flag EXCEPT ![t] = FALSE]
  /\ UNCHANGED <<op, arg, i, ret, result, log, instance>>

\* lines 90-91: std::vector<std::string> ret; ret.reserve(ids.size());
DecodeBatchEnter(t) ==
  /\ t \in threads /\ pc[t] = "DecodeBatch"
  /\ ret' = [ret EXCEPT ![RetOf(t)] = <<>>]
  /\ i' = [i EXCEPT ![t] = 0]
  /\ pc' = [pc EXCEPT ![t] = "DecodeBatchLoop"]
  /\ UNCHANGED <<op, arg, flag, result, log, instance>>

\* lines 92-94
DecodeBatchIter(t) ==
  /\ t \in threads /\ pc[t] = "DecodeBatchLoop"
  /\ i[t] < Len(arg[t])
  /\ LET inv == DecodeItemCall(ItemAt(arg[t], i[t]), flag[t])
         r == Invoke(inv)
     IN /\ log' = [log EXCEPT ![t] = Append(@, inv)]
        /\ IF ItemFaultEscapes(r)
             THEN /\ Finish(t, Fault)
                  /\ ret' = [ret EXCEPT ![RetOf(t)] = <<>>]
                  /\ UNCHANGED i
             ELSE /\ ret' = [ret EXCEPT ![RetOf(t)] = push_back(@, r.val)]
                  /\ i' = [i EXCEPT ![t] = @ + 1]
                  /\ UNCHANGED <<pc, result>>
  /\ UNCHANGED <<op, arg, flag, instance>>

\* line 95: return ret;
DecodeBatchReturn(t) ==
  /\ t \in threads /\ pc[t] = "DecodeBatchLoop"
  /\ i[t] = Len(arg[t])
  /\ Finish(t, BatchReturn(ret[RetOf(t)]))
  /\ ret' = [ret EXCEPT ![RetOf(t)] = <<>>]
  /\ UNCHANGED <<op, arg, flag, i, log, instance>>

\* the body of an overriding DecodeBatch(ids, skip_special_tokens)
NativeDecodeBatchBody(t) ==
  /\ t \in threads /\ pc[t] = "NativeDecodeBatch"
  /\ Finish(t, NativeDecodeBatch(arg[t], flag[t]))
  /\ UNCHANGED <<op, arg, flag, i, ret, log, instance>>

\* GetVocabSize()
CallGetVocabSize(t) ==
  /\ Idle(t)
  /\ op' = [op EXCEPT ![t] = "GetVocabSize"]
  /\ Finish(t, Value(GetVocabSize))
  /\ UNCHANGED <<arg, flag, i, ret, log, instance>>

\* IdToToken(token_id)
CallIdToToken(t, token_id) ==
  /\ Idle(t)
  /\ op' = [op EXCEPT ![t] = "IdToToken"]
  /\ arg' = [arg EXCEPT ![t] = token_id]
  /\ Finish(t, Value(IdToToken(token_id)))
  /\ UNCHANGED <<flag, i, ret, log, instance>>

\* TokenToId(token)
CallTokenToId(t, token) ==
  /\ Idle(t)
  /\ op' = [op EXCEPT ![t] = "TokenToId"]
  /\ arg' = [arg EXCEPT ![t] = token]
  /\ Finish(t, Value(TokenToId(token)))
  /\ UNCHANGED <<flag, i, ret, log, instance>>

\* The caller takes the outcome; the frame of the call is gone.
Return(t) ==
  /\ t \in threads /\ pc[t] = "done"
  /\ pc' = [pc EXCEPT ![t] = "idle"]
  /\ op' = [op EXCEPT ![t] = "none"]
  /\ arg' = [arg EXCEPT ![t] = <<>>]
  /\ flag' = [flag EXCEPT ![t] = FALSE]
  /\ i' = [i EXCEPT ![t] = 0]
  /\ result' = [result EXCEPT ![t] = None]
  /\ log' = [log EXCEPT ![t] = <<>>]
  /\ UNCHANGED <<ret, instance>>


\* --------------------------------------------------------- construction
\* ids the callers probe IdToToken with: in range, below and above it
ProbeIds == -2..(MaxVocab + 1)

FaultyOn(table, x) == [table EXCEPT ![x] = Fault]

FramesInit ==
  /\ pc = [t \in Threads |-> "idle"]
  /\ op = [t \in Threads |-> "none"]
  /\ arg = [t \in Threads |-> <<>>]
  /\ flag = [t \in Threads |-> FALSE]
  /\ i = [t \in Threads |-> 0]
  /\ ret = [t \in Threads |-> <<>>]
  /\ result = [t \in Threads |-> None]
  /\ log = [t \in Threads |-> <<>>]

\* A variant with any encoder: its own Encode and the default batch form,
\* or an overriding batch form over any engine.
EncoderVariant ==
  /\ \/ overridesEncodeBatch = FALSE /\ enc \in EncTables /\ nativeEnc = ToyEnc
     \/ overridesEncodeBatch = TRUE /\ enc = ToyEnc /\ nativeEnc \in EncTables
  /\ overridesDecodeBatch = FALSE /\ dec = ToyDec /\ nativeDec = ToyDec
  /\ vocab = ToyVocab

DecoderVariant ==
  /\ \/ overridesDecodeBatch = FALSE /\ dec \in DecTables /\ nativeDec = ToyDec
     \/ overridesDecodeBatch = TRUE /\ dec = ToyDec /\ nativeDec \in DecTables
  /\ overridesEncodeBatch = FALSE /\ enc = ToyEnc /\ nativeEnc = ToyEnc
  /\ vocab = ToyVocab

VocabVariant ==
  /\ vocab \in Vocabs
  /\ overridesEncodeBatch = FALSE /\ enc = ToyEnc /\ nativeEnc = ToyEnc
  /\ overridesDecodeBatch = FALSE /\ dec = ToyDec /\ nativeDec = ToyDec

\* One caller at a time, any variant.
Init ==
  /\ threads = {"t1"}
  /\ EncoderVariant \/ DecoderVariant \/ VocabVariant
  /\ FramesInit

\* Two callers on one instance whose backend is stateless after
\* construction: a variant with the default batch forms whose primitives
\* fail on one input each, or a variant that overrides the batch forms.
ConcInit ==
  /\ threads = Threads
  /\ \/ /\ enc = FaultyOn(ToyEnc, <<<<"a">>, TRUE>>)
        /\ dec = FaultyOn(ToyDec, <<<<0>>, TRUE>>)
        /\ overridesEncodeBatch = FALSE /\ overridesDecodeBatch = FALSE
     \/ /\ enc = ToyEnc
        /\ dec = ToyDec
        /\ overridesEncodeBatch = TRUE /\ overridesDecodeBatch = TRUE
  /\ nativeEnc = ToyEnc
  /\ nativeDec = ToyDec
  /\ vocab = ToyVocab
  /\ FramesInit

\* ------------------------------------------------------------ behaviours
\* what the code of a call in progress does next
Step(t) ==
  \/ Encode1Body(t)
  \/ EncodeBatch1Body(t)
  \/ EncodeBatchEnter(t)
  \/ EncodeBatchIter(t)
  \/ EncodeBatchReturn(t)
  \/ NativeEncodeBatchBody(t)
  \/ Decode1Body(t)
  \/ DecodeBatch1Body(t)
  \/ DecodeBatchEnter(t)
  \/ DecodeBatchIter(t)
  \/ DecodeBatchReturn(t)
  \/ NativeDecodeBatchBody(t)

Next ==
  \/ \E t \in Threads, text \in Texts : CallEncode(t, text)
  \/ \E t \in Threads : Encode1Body(t)
  \/ \E t \in Threads, texts \in TextBatches, b \in BOOLEAN :
       CallEncodeBatch(t, texts, b)
  \/ \E t \in Threads, texts \in TextBatches : CallEncodeBatch1(t, texts)
  \/ \E t \in Threads : EncodeBatch1Body(t)
  \/ \E t \in Threads : EncodeBatchEnter(t)
  \/ \E t \in Threads : EncodeBatchIter(t)
  \/ \E t \in Threads : EncodeBatchReturn(t)
  \/ \E t \in Threads : NativeEncodeBatchBody(t)
  \/ \E t \in Threads, ids \in IdSeqs : CallDecode(t, ids)
  \/ \E t \in Threads : Decode1Body(t)
  \/ \E t \in Threads, ids \in IdBatches, b \in BOOLEAN :
       CallDecodeBatch(t, ids, b)
  \/ \E t \in Threads, ids \in IdBatches : CallDecodeBatch1(t, ids)
  \/ \E t \in Threads : DecodeBatch1Body(t)
  \/ \E t \in Threads : DecodeBatchEnter(t)
  \/ \E t \in Threads : DecodeBatchIter(t)
  \/ \E t \in Threads : DecodeBatchReturn(t)
  \/ \E t \in Threads : NativeDecodeBatchBody(t)
  \/ \E t \in Threads : CallGetVocabSize(t)
  \/ \E t \in Threads, token_id \in ProbeIds : CallIdToToken(t, token_id)
  \/ \E t \in Threads, token \in Texts : CallTokenToId(t, token)
  \/ \E t \in Threads : Return(t)

Spec == Init /\ [][Next]_vars

\* A thread inside a call keeps running until the call is over.
FairSpec == Init /\ [][Next]_vars /\ \A t \in Threads : WF_vars(Step(t))

ConcSpec == ConcInit /\ [][Next]_vars


\* ------------------------------------------------------------ properties
Done(t) == t \in threads /\ pc[t] = "done"

\* the call of thread t ran, or runs, the default loop of lines 46-55
DefaultEncodeBatch(t) ==
  op[t] \in {"EncodeBatch", "EncodeBatch1"} /\ ~overridesEncodeBatch

\* the same for lines 87-96
DefaultDecodeBatch(t) ==
  op[t] \in {"DecodeBatch", "DecodeBatch1"} /\ ~overridesDecodeBatch

DefaultBatch(t) == DefaultEncodeBatch(t) \/ DefaultDecodeBatch(t)

\* the primitive a default batch call of thread t runs on its element k
ItemOutcome(t, k) ==
  IF op[t] \in {"EncodeBatch", "EncodeBatch1"}
    THEN Encode(arg[t][k], flag[t])
    ELSE Decode(arg[t][k], flag[t])

Faulting(t) == {k \in 1..Len(arg[t]) : ItemOutcome(t, k) = Fault}

FirstFault(t) == CHOOSE k \in Faulting(t) : \A j \in Faulting(t) : k <= j

\* C1: a variant that does not override the batch form returns from
\* EncodeBatch(T, b), at every index i of T, what Encode(T[i], b) returns;
\* the batch call has no value only if some Encode(T[i], b) has none.
C1_EncodeBatchIsEncodePerItem ==
  \A t \in Threads :
    (Done(t) /\ op[t] = "EncodeBatch" /\ ~overridesEncodeBatch) =>
      /\ result[t].kind = "value" =>
           \A k \in 1..Len(arg[t]) :
             /\ k \in DOMAIN result[t].val
             /\ Value(result[t].val[k]) = Encode(arg[t][k], flag[t])
      /\ result[t].kind # "value" =>
           \E k \in 1..Len(arg[t]) : Encode(arg[t][k], flag[t]) = Fault

C1_Witness ==
  \E t \in Threads :
    /\ Done(t) /\ op[t] = "EncodeBatch" /\ ~overridesEncodeBatch
    /\ flag[t] = TRUE
    /\ Len(arg[t]) = 2
    /\ result[t].kind = "value"
    /\ result[t].val[1] # result[t].val[2]
    /\ Encode(arg[t][1], TRUE) # Encode(arg[t][1], FALSE)

\* C2: a variant that does not override the batch form returns from
\* DecodeBatch(I, b), at every index i of I, what Decode(I[i], b) returns.
C2_DecodeBatchIsDecodePerItem ==
  \A t \in Threads :
    (Done(t) /\ op[t] = "DecodeBatch" /\ ~overridesDecodeBatch) =>
      /\ result[t].kind = "value" =>
           \A k \in 1..Len(arg[t]) :
             /\ k \in DOMAIN result[t].val
             /\ Value(result[t].val[k]) = Decode(arg[t][k], flag[t])
      /\ result[t].kind # "value" =>
           \E k \in 1..Len(arg[t]) : Decode(arg[t][k], flag[t]) = Fault

C2_Witness ==
  \E t \in Threads :
    /\ Done(t) /\ op[t] = "DecodeBatch" /\ ~overridesDecodeBatch
    /\ flag[t] = TRUE
    /\ Len(arg[t]) = 2
    /\ result[t].kind = "value"
    /\ result[t].val[1] # result[t].val[2]
    /\ Decode(arg[t][1], TRUE) # Decode(arg[t][1], FALSE)

\* C3: the default batch forms keep order and cardinality: while the loop
\* runs the accumulator holds one output per element visited, and a batch
\* that returns has as many outputs as inputs, the k-th being the outcome
\* of the k-th invocation, which was made on the k-th input.
C3_BatchKeepsOrderAndCardinality ==
  \A t \in Threads :
    /\ (t \in threads /\ pc[t] \in {"EncodeBatchLoop", "DecodeBatchLoop"}) =>
         /\ Len(ret[t]) = i[t]
         /\ i[t] <= Len(arg[t])
    /\ (Done(t) /\ DefaultBatch(t) /\ result[t].kind = "value") =>
         /\ Len(result[t].val) = Len(arg[t])
         /\ Len(log[t]) = Len(arg[t])
         /\ \A k \in 1..Len(arg[t]) :
              /\ log[t][k].arg = arg[t][k]
              /\ Value(result[t].val[k]) = Invoke(log[t][k])

C3_Witness ==
  \E t \in Threads :
    /\ Done(t) /\ DefaultBatch(t) /\ op[t] = "DecodeBatch1"
    /\ Len(arg[t]) = 2
    /\ arg[t][1] # arg[t][2]
    /\ result[t].kind = "value"
    /\ result[t].val[1] # result[t].val[2]

\* C4: Encode(t) returns what Encode(t, false) returns and Decode(ids)
\* what Decode(ids, false) returns, by one invocation with the flag false.
C4_FlagFreeIsFlagFalse ==
  \A t \in Threads :
    /\ (Done(t) /\ op[t] = "Encode1") =>
         /\ result[t] = Encode(arg[t], FALSE)
         /\ log[t] = <<Invocation("Encode", arg[t], FALSE)>>
    /\ (Done(t) /\ op[t] = "Decode1") =>
         /\ result[t] = Decode(arg[t], FALSE)
         /\ log[t] = <<Invocation("Decode", arg[t], FALSE)>>

C4_Witness ==
  \E t \in Threads :
    /\ Done(t) /\ op[t] = "Encode1"
    /\ result[t].kind = "value"
    /\ Encode(arg[t], TRUE) # Encode(arg[t], FALSE)

\* C5: EncodeBatch(texts) returns what EncodeBatch(texts, false) of the
\* same instance returns, and DecodeBatch(ids) what DecodeBatch(ids, false)
\* returns, whether the two-argument form is the default or an override.
C5_FlagFreeBatchIsFlagFalseBatch ==
  \A t \in Threads :
    /\ (Done(t) /\ op[t] = "EncodeBatch1") =>
         result[t] = (IF overridesEncodeBatch
                        THEN NativeEncodeBatch(arg[t], FALSE)
                        ELSE EncodeBatchDefault(arg[t], FALSE))
    /\ (Done(t) /\ op[t] = "DecodeBatch1") =>
         result[t] = (IF overridesDecodeBatch
                        THEN NativeDecodeBatch(arg[t], FALSE)
                        ELSE DecodeBatchDefault(arg[t], FALSE))

C5_Witness ==
  \E t \in Threads :
    /\ Done(t) /\ op[t] = "EncodeBatch1"
    /\ overridesEncodeBatch
    /\ Len(arg[t]) = 2
    /\ result[t].kind = "value"
    /\ NativeEncodeBatch(arg[t], FALSE) # EncodeBatchDefault(arg[t], FALSE)
    /\ NativeEncodeBatch(arg[t], FALSE) # NativeEncodeBatch(arg[t], TRUE)

\* C6: under the default policy a fault of the primitive on element k ends
\* the batch there: the caller gets the fault and no sequence, the
\* primitive has been invoked on the elements up to k only, and the loop
\* never stands behind a faulting element.
C6_FaultAbortsDefaultBatch ==
  \A t \in Threads :
    /\ (Done(t) /\ DefaultBatch(t) /\ Faulting(t) # {}) =>
         /\ result[t] = Fault
         /\ Len(log[t]) = FirstFault(t)
         /\ \A k \in 1..Len(log[t]) : log[t][k].arg = arg[t][k]
         /\ ret[t] = <<>>
    /\ (t \in threads /\ pc[t] \in {"EncodeBatchLoop", "DecodeBatchLoop"}
          /\ Faulting(t) # {}) =>
         i[t] < FirstFault(t)

C6_Witness ==
  \E t \in Threads :
    /\ Done(t) /\ DefaultBatch(t) /\ op[t] = "EncodeBatch"
    /\ Len(arg[t]) = 2
    /\ Faulting(t) = {1}
    /\ result[t] = Fault
    /\ Len(log[t]) = 1

\* every method the variant provides returns a value for every input
WellFormed ==
  /\ \A x \in DOMAIN enc : enc[x] # Fault
  /\ \A x \in DOMAIN dec : dec[x] # Fault
  /\ overridesEncodeBatch => \A x \in DOMAIN nativeEnc : nativeEnc[x] # Fault
  /\ overridesDecodeBatch => \A x \in DOMAIN nativeDec : nativeDec[x] # Fault

FacadeOps ==
  {"Encode1", "EncodeBatch", "EncodeBatch1",
   "Decode1", "DecodeBatch", "DecodeBatch1"}

\* C7: the facade originates no fault: on an instance whose own methods
\* return a value for every input each of the six default methods returns
\* a value, and a default batch form given the empty batch returns the
\* empty sequence without having invoked a primitive.
C7_FacadeOriginatesNoFault ==
  \A t \in Threads :
    /\ (Done(t) /\ op[t] \in FacadeOps /\ WellFormed) =>
         result[t].kind = "value"
    /\ (Done(t) /\ DefaultBatch(t) /\ Len(arg[t]) = 0) =>
         /\ result[t] = Value(<<>>)
         /\ log[t] = <<>>

C7_Witness ==
  \E t \in Threads :
    /\ Done(t) /\ DefaultBatch(t) /\ op[t] = "EncodeBatch"
    /\ Len(arg[t]) = 0
    /\ WellFormed
    /\ result[t] = Value(<<>>)

\* C8: a lookup miss is a value: TokenToId of a string absent from the
\* vocabulary returns -1, IdToToken of an id that does not exist (out of
\* 0 <= id < GetVocabSize() included) returns the empty string, and
\* neither lookup faults.
C8_LookupMissIsSentinel ==
  \A t \in Threads :
    /\ (Done(t) /\ op[t] = "TokenToId") =>
         /\ result[t].kind = "value"
         /\ ~TokenExists(arg[t]) => result[t].val = -1
    /\ (Done(t) /\ op[t] = "IdToToken") =>
         /\ result[t].kind = "value"
         /\ ~IdExists(arg[t]) => result[t].val = <<>>

C8_Witness ==
  \E t \in Threads :
    /\ Done(t) /\ op[t] = "TokenToId"
    /\ arg[t] # <<>>
    /\ GetVocabSize > 0
    /\ ~TokenExists(arg[t])
    /\ result[t].val = -1

\* what a call returns when it is the only one running on the instance
Alone(method, a, b) ==
  CASE method = "Encode1" -> Invoke(Encode1Call(a))
    [] method = "EncodeBatch" -> EncodeBatch(a, b)
    [] method = "EncodeBatch1" -> EncodeBatch(a, FALSE)
    [] method = "Decode1" -> Invoke(Decode1Call(a))
    [] method = "DecodeBatch" -> DecodeBatch(a, b)
    [] method = "DecodeBatch1" -> DecodeBatch(a, FALSE)
    [] method = "GetVocabSize" -> Value(GetVocabSize)
    [] method = "IdToToken" -> Value(IdToToken(a))
    [] method = "TokenToId" -> Value(TokenToId(a))

\* C9: with a backend that is stateless after construction, every call
\* that runs concurrently with calls of other threads on the same instance
\* returns what it returns when run alone.
C9_ConcurrentCallsReturnAloneResult ==
  \A t \in Threads :
    Done(t) => result[t] = Alone(op[t], arg[t], flag[t])

C9_Witness ==
  /\ threads = Threads
  /\ Done("t1") /\ DefaultEncodeBatch("t1")
  /\ Len(arg["t1"]) = 2
  /\ result["t1"].kind = "value"
  /\ pc["t2"] = "EncodeBatchLoop"
  /\ i["t2"] = 1
  /\ arg["t2"] # arg["t1"]

\* the invocations a default batch call makes on its first n elements
ExpectedLog(t, n) ==
  [k \in 1..n |->
     Invocation(IF op[t] \in {"EncodeBatch", "EncodeBatch1"}
                  THEN "Encode" ELSE "Decode",
                arg[t][k], flag[t])]

\* C10: the default batch fallback is a sequential loop: after i rounds it
\* has invoked the primitive of its kind on the first i elements, in
\* order, with the flag it was given, and nothing else; a batch that
\* returns has made exactly len invocations; and the call comes to an end.
C10_DefaultBatchIsSequentialLoop ==
  /\ [](\A t \in Threads :
          /\ (t \in threads /\ pc[t] \in {"EncodeBatchLoop", "DecodeBatchLoop"})
               => log[t] = ExpectedLog(t, i[t])
          /\ (Done(t) /\ DefaultBatch(t) /\ result[t].kind = "value")
               => log[t] = ExpectedLog(t, Len(arg[t])))
  /\ \A t \in Threads :
       (pc[t] \in {"EncodeBatch", "EncodeBatchLoop",
                   "DecodeBatch", "DecodeBatchLoop"}) ~> (pc[t] = "done")

C10_Witness ==
  \E t \in Threads :
    /\ Done(t) /\ op[t] = "DecodeBatch" /\ ~overridesDecodeBatch
    /\ flag[t] = TRUE
    /\ Len(arg[t]) = 2
    /\ arg[t][1] # arg[t][2]
    /\ result[t].kind = "value"
    /\ Len(log[t]) = 2

====
